---- MODULE Spec2Model ----
(***************************************************************************)
(* Model of install_loader/src/config.rs: InstallerConfig::new(root,       *)
(* is_retry) builds the installer's configuration record from a root       *)
(* directory and a retry flag.                                             *)
(*                                                                         *)
(* The installer is a Windows program (crate::windows_utilities), so       *)
(* PathBuf follows the Windows rules of the Rust standard library: both    *)
(* '\' and '/' separate components (only '\' in verbatim paths), a path    *)
(* may start with a prefix (C:, \\server\share, \\?\..., \\.\...), and two *)
(* PathBufs are equal when their component lists are equal.  The rules are *)
(* those of the current standard library: parse_prefix reads "\\server"    *)
(* without a share as no prefix, and push rebuilds a verbatim path from    *)
(* its components.                                                         *)
(*                                                                         *)
(* windows_utilities::absolute_path_str is not part of config.rs; it is    *)
(* modelled by its contract: the absolute form of the path when the host   *)
(* can resolve it, the given default when it cannot.                       *)
(*                                                                         *)
(* A path or string is a sequence of one-character strings.                *)
(***************************************************************************)
EXTENDS Naturals, Sequences, FiniteSets

VARIABLES
    root,       \* the `root` argument of InstallerConfig::new
    is_retry,   \* the `is_retry` argument of InstallerConfig::new
    cwd,        \* host: the current directory the process was started in
    rootStat,   \* host: what a filesystem query of `root` finds
    pc,         \* "start" before the first call of new, "returned" after a call
    cfg,        \* the InstallerConfig the latest call returned
    prev,       \* the InstallerConfig the call before it returned
    fsLog       \* the filesystem operations the latest call performed

vars == <<root, is_retry, cwd, rootStat, pc, cfg, prev, fsLog>>

-----------------------------------------------------------------------------
(* Bounds of the model.                                                    *)

\* Roots of every length up to MaxRootLen over Alphabet are enumerated.
MaxRootLen == 3

-----------------------------------------------------------------------------
(* Strings.                                                                *)

Take(s, n) == SubSeq(s, 1, n)
Drop(s, n) == SubSeq(s, n + 1, Len(s))

StartsWith(s, p) == Len(s) >= Len(p) /\ Take(s, Len(p)) = p

BS == "\\"

Lower == <<"a","b","c","d","e","f","g","h","i","j","k","l","m",
           "n","o","p","q","r","s","t","u","v","w","x","y","z">>
Upper == <<"A","B","C","D","E","F","G","H","I","J","K","L","M",
           "N","O","P","Q","R","S","T","U","V","W","X","Y","Z">>

\* u8::is_ascii_alphabetic
IsAsciiAlphabetic(c) == \E i \in 1..26 : Lower[i] = c \/ Upper[i] = c

\* u8::to_ascii_uppercase
ToAsciiUppercase(c) ==
    IF \E i \in 1..26 : Lower[i] = c
    THEN Upper[CHOOSE i \in 1..26 : Lower[i] = c]
    ELSE c

-----------------------------------------------------------------------------
(* std::path on Windows: separators and prefixes.                          *)

\* is_sep_byte: '/' and '\' both separate components
IsSepByte(c) == c = "/" \/ c = BS

\* is_verbatim_sep: only '\' separates components of a verbatim path
IsVerbatimSep(c) == c = BS

IsSep(c, verbatim) == IF verbatim THEN IsVerbatimSep(c) ELSE IsSepByte(c)

\* position of the first separator of s, 0 when it has none
FirstSep(s, verbatim) ==
    LET idx == {i \in 1..Len(s) : IsSep(s[i], verbatim)}
    IN  IF idx = {} THEN 0 ELSE CHOOSE i \in idx : \A j \in idx : i <= j

\* parse_next_component: <<the text before the first separator, the text after it>>
ParseNextComponent(s, verbatim) ==
    LET i == FirstSep(s, verbatim)
    IN  IF i = 0 THEN <<s, <<>>>> ELSE <<Take(s, i - 1), Drop(s, i)>>

\* parse_drive: Some(upper-cased letter) for "X:...", here <<letter>>, or <<>>
ParseDrive(s) ==
    IF Len(s) >= 2 /\ IsAsciiAlphabetic(s[1]) /\ s[2] = ":"
    THEN <<ToAsciiUppercase(s[1])>>
    ELSE <<>>

\* parse_drive_exact: a drive followed by nothing or by a separator
ParseDriveExact(s) ==
    IF Len(s) < 3 \/ IsSepByte(s[3]) THEN ParseDrive(s) ELSE <<>>

\* PrefixParser::<8>::get_prefix: the first 8 bytes, '/' read as '\', against
\* which the prefix is matched
NormSep(s) ==
    LET n == IF Len(s) < 8 THEN Len(s) ELSE 8
    IN  [i \in 1..n |-> IF s[i] = "/" THEN BS ELSE s[i]]

\* std::path::Prefix; kind "None" stands for Option::None
MkPrefix(kind, a, b) == [kind |-> kind, a |-> a, b |-> b]
NoPrefix == MkPrefix("None", <<>>, <<>>)

\* parse_prefix
ParsePrefix(path) ==
    LET n == NormSep(path) IN
    IF StartsWith(n, <<BS, BS>>)
    THEN IF StartsWith(n, <<BS, BS, "?", BS>>)
            /\ \A i \in 1..4 : path[i] # "/"
         THEN IF StartsWith(n, <<BS, BS, "?", BS, "U", "N", "C", BS>>)
              THEN LET sv == ParseNextComponent(Drop(path, 8), TRUE)
                       sh == ParseNextComponent(sv[2], TRUE)
                   IN  MkPrefix("VerbatimUNC", sv[1], sh[1])
              ELSE LET rest == Drop(path, 4) IN
                   IF ParseDriveExact(rest) # <<>>
                   THEN MkPrefix("VerbatimDisk", ParseDriveExact(rest), <<>>)
                   ELSE MkPrefix("Verbatim", ParseNextComponent(rest, TRUE)[1], <<>>)
         ELSE IF StartsWith(n, <<BS, BS, ".", BS>>)
         THEN MkPrefix("DeviceNS", ParseNextComponent(Drop(path, 4), FALSE)[1], <<>>)
         ELSE LET sv == ParseNextComponent(Drop(path, 2), FALSE)
                  sh == ParseNextComponent(sv[2], FALSE)
              IN  IF sv[1] # <<>> /\ sh[1] # <<>>
                  THEN MkPrefix("UNC", sv[1], sh[1])
                  ELSE NoPrefix
    ELSE IF ParseDrive(path) # <<>>
         THEN MkPrefix("Disk", ParseDrive(path), <<>>)
         ELSE NoPrefix

\* Prefix::len: the number of bytes of the path the prefix takes
PrefixLen(p) ==
    LET opt(x) == IF Len(x) > 0 THEN 1 + Len(x) ELSE 0 IN
    CASE p.kind = "None"         -> 0
      [] p.kind = "Verbatim"     -> 4 + Len(p.a)
      [] p.kind = "VerbatimUNC"  -> 8 + Len(p.a) + opt(p.b)
      [] p.kind = "VerbatimDisk" -> 6
      [] p.kind = "UNC"          -> 2 + Len(p.a) + opt(p.b)
      [] p.kind = "DeviceNS"     -> 4 + Len(p.a)
      [] p.kind = "Disk"         -> 2

\* Prefix::is_verbatim
IsVerbatim(p) == p.kind \in {"Verbatim", "VerbatimUNC", "VerbatimDisk"}

\* Prefix::is_drive
IsDrive(p) == p.kind = "Disk"

\* Prefix::has_implicit_root
HasImplicitRoot(p) == p.kind # "None" /\ ~IsDrive(p)

-----------------------------------------------------------------------------
(* std::path on Windows: components.                                       *)

\* std::path::Component. s is Component::as_os_str, p the parsed prefix of a
\* Prefix component.
MkComp(t, s, p) == [t |-> t, s |-> s, p |-> p]
RootDirComp == MkComp("RootDir", <<BS>>, NoPrefix)
CurDirComp == MkComp("CurDir", <<".">>, NoPrefix)
ParentDirComp == MkComp("ParentDir", <<".", ".">>, NoPrefix)
NormalComp(s) == MkComp("Normal", s, NoPrefix)

\* has_physical_root(s, prefix): a separator right after the prefix
HasPhysicalRoot(path, p) ==
    LET rest == Drop(path, PrefixLen(p))
    IN  rest # <<>> /\ IsSepByte(rest[1])

\* Path::is_absolute (Windows: a root and a prefix)
IsAbsolute(path) ==
    LET p == ParsePrefix(path)
    IN  p # NoPrefix /\ (HasPhysicalRoot(path, p) \/ HasImplicitRoot(p))

\* Components::include_cur_dir: a leading "." of a path without a root
IncludeCurDir(path, p) ==
    LET rest == Drop(path, PrefixLen(p))
    IN  /\ ~(HasPhysicalRoot(path, p) \/ HasImplicitRoot(p))
        /\ rest # <<>>
        /\ rest[1] = "."
        /\ (Len(rest) = 1 \/ IsSep(rest[2], IsVerbatim(p)))

\* Components::parse_single_component
ParseSingleComponent(comp, verbatim) ==
    IF comp = <<>> THEN <<>>
    ELSE IF comp = <<".">> THEN (IF verbatim THEN <<CurDirComp>> ELSE <<>>)
    ELSE IF comp = <<".", ".">> THEN <<ParentDirComp>>
    ELSE <<NormalComp(comp)>>

\* Components::next in State::Body, run to the end of the path
RECURSIVE BodyComponents(_, _)
BodyComponents(rest, verbatim) ==
    IF rest = <<>> THEN <<>>
    ELSE LET nc == ParseNextComponent(rest, verbatim)
         IN  ParseSingleComponent(nc[1], verbatim) \o BodyComponents(nc[2], verbatim)

\* Components::next from State::Prefix on, for a path whose parsed prefix is p:
\* the prefix, the root or leading ".", then the body
ComponentsFrom(path, p) ==
    LET verbatim == IsVerbatim(p)
        physical == HasPhysicalRoot(path, p)
        curdir == p = NoPrefix /\ ~physical /\ IncludeCurDir(path, p)
        prefixPart == IF p = NoPrefix THEN <<>>
                      ELSE <<MkComp("Prefix", Take(path, PrefixLen(p)), p)>>
        startPart == IF physical THEN <<RootDirComp>>
                     ELSE IF p # NoPrefix
                     THEN (IF HasImplicitRoot(p) /\ ~verbatim THEN <<RootDirComp>> ELSE <<>>)
                     ELSE IF curdir THEN <<CurDirComp>>
                     ELSE <<>>
        skip == PrefixLen(p) + (IF physical \/ curdir THEN 1 ELSE 0)
    IN  prefixPart \o startPart \o BodyComponents(Drop(path, skip), verbatim)

\* Path::components, collected
Components(path) == ComponentsFrom(path, ParsePrefix(path))

\* Component's PartialEq: prefixes compare by their parsed form, the rest by
\* kind and text
CompEq(c, d) ==
    /\ c.t = d.t
    /\ IF c.t = "Prefix" THEN c.p = d.p ELSE c.s = d.s

\* PartialEq for Path / PathBuf: equal component lists
PathEq(x, y) ==
    LET cx == Components(x)
        cy == Components(y)
    IN  /\ Len(cx) = Len(cy)
        /\ \A i \in 1..Len(cx) : CompEq(cx[i], cy[i])

-----------------------------------------------------------------------------
(* PathBuf::push and Path::join.                                           *)

\* the verbatim branch of PathBuf::_push: fold the pushed components into buf
RECURSIVE PushVerbatimComps(_, _)
PushVerbatimComps(buf, cs) ==
    IF cs = <<>> THEN buf
    ELSE LET c == cs[1]
             nbuf == CASE c.t = "RootDir" -> Take(buf, 1) \o <<c>>
                       [] c.t = "CurDir" -> buf
                       [] c.t = "ParentDir" ->
                            IF buf # <<>> /\ buf[Len(buf)].t = "Normal"
                            THEN Take(buf, Len(buf) - 1) ELSE buf
                       [] OTHER -> buf \o <<c>>
         IN  PushVerbatimComps(nbuf, Tail(cs))

\* the verbatim branch of PathBuf::_push: the components written back as text
RECURSIVE RenderComps(_, _, _)
RenderComps(res, need_sep, buf) ==
    IF buf = <<>> THEN res
    ELSE LET c == buf[1]
             sep == IF need_sep /\ c.t # "RootDir" THEN <<BS>> ELSE <<>>
             nsep == CASE c.t = "RootDir" -> FALSE
                       [] c.t = "Prefix" -> ~IsDrive(c.p) /\ PrefixLen(c.p) > 0
                       [] OTHER -> TRUE
         IN  RenderComps(res \o sep \o c.s, nsep, Tail(buf))

\* PathBuf::_push that never inserts the separator
PathPushNoSep(self, path) == self \o path

\* the body of PathBuf::_push, sp and pp being the parsed prefixes of self
\* and of path
PushParsed(self, path, sp, pp) ==
    LET need_sep ==
            /\ self # <<>>
            /\ ~IsSepByte(self[Len(self)])
            /\ ~(PrefixLen(sp) > 0 /\ PrefixLen(sp) = Len(self) /\ IsDrive(sp))
        path_has_root == HasPhysicalRoot(path, pp) \/ HasImplicitRoot(pp)
    IN  IF (path_has_root /\ pp # NoPrefix) \/ pp # NoPrefix
        THEN path
        ELSE IF IsVerbatim(sp) /\ path # <<>>
        THEN RenderComps(<<>>, FALSE,
                         PushVerbatimComps(ComponentsFrom(self, sp), ComponentsFrom(path, pp)))
        ELSE IF path_has_root
        THEN Take(self, PrefixLen(sp)) \o path
        ELSE IF need_sep
        THEN self \o <<BS>> \o path
        ELSE self \o path

\* PathBuf::_push
PathPush(self, path) == PushParsed(self, path, ParsePrefix(self), ParsePrefix(path))

\* Path::join: push onto a copy
PathJoin(self, path) == PathPush(self, path)

-----------------------------------------------------------------------------
(* The host: what absolute_path_str consults.                              *)

\* what a filesystem query of the root can find
RootStats == {"ok", "missing", "denied"}

\* current directories of the process: C:\w and D:\
Cwds == { <<"C", ":", BS, "w">>, <<"D", ":", BS>> }

\* The byte at which ImString::new cuts its argument.
NUL == "NUL"

\* imgui::ImString::new: the string up to its first NUL byte
ImStringNew(s) ==
    LET idx == {i \in 1..Len(s) : s[i] = NUL}
    IN  IF idx = {} THEN s
        ELSE Take(s, (CHOOSE i \in idx : \A j \in idx : i <= j) - 1)

\* windows_utilities::absolute_path_str(path, default): the absolute form of
\* path when the host can resolve it (a relative path against the current
\* directory, a drive-relative one against its drive), and `default` verbatim
\* when it cannot.
AbsolutePathStr(path, default, dir, stat) ==
    IF stat # "ok" THEN default
    ELSE IF IsAbsolute(path) THEN path
    ELSE IF IsDrive(ParsePrefix(path)) THEN Take(path, 2) \o <<BS>> \o Drop(path, 2)
    ELSE PathJoin(dir, path)

\* The filesystem operations of one absolute_path_str call: one resolution
\* query, with what it found.
AbsolutePathOps(stat) == <<[op |-> "query", found |-> stat]>>

\* The host's view of the root after filesystem operations ops.
RECURSIVE ApplyOps(_, _)
ApplyOps(stat, ops) ==
    IF ops = <<>> THEN stat
    ELSE ApplyOps(IF ops[1].op = "create_dir" THEN "ok" ELSE stat, Tail(ops))

-----------------------------------------------------------------------------
(* InstallerConfig::new.                                                   *)

FALLBACK_MESSAGE ==
    <<"c","o","u","l","d","n","'","t"," ","d","e","t","e","r","m","i","n","e",
      " ","p","a","t","h">>
LOGS_SEGMENT == <<"I","N","S","T","A","L","L","E","R","_","L","O","G","S">>
PYTHON_SEGMENT ==
    <<"p","y","t","h","o","n","/","p","y","t","h","o","n",".","e","x","e">>
SERVER_INFO_SEGMENT ==
    <<"s","e","r","v","e","r","-","i","n","f","o",".","j","s","o","n">>
SERVER_INFO_OLD_SEGMENT ==
    <<"s","e","r","v","e","r","-","i","n","f","o","-","o","l","d",".","j","s","o","n">>

\* no InstallerConfig: before the first call, or a call that did not return one
NoConfig == [none |-> TRUE]

ConfigFields ==
    {"sub_folder", "sub_folder_display", "logs_folder", "python_path",
     "is_retry", "server_info_path", "server_info_old"}

\* Variants of new, each with one plausible slip.  An InstallerConfig from
\* its seven field values:
Cfg(sub, disp, logs, py, retry, info, old) ==
    [sub_folder |-> sub, sub_folder_display |-> disp, logs_folder |-> logs,
     python_path |-> py, is_retry |-> retry, server_info_path |-> info,
     server_info_old |-> old]

\* the display string as new computes it
Display(r, dir, stat) == ImStringNew(AbsolutePathStr(r, FALLBACK_MESSAGE, dir, stat))

\* new with the two server-info segments swapped
NewSwappedInfo(r, retry, dir, stat) ==
    Cfg(r, Display(r, dir, stat), PathJoin(r, LOGS_SEGMENT), PathJoin(r, PYTHON_SEGMENT),
        retry, PathJoin(r, SERVER_INFO_OLD_SEGMENT), PathJoin(r, SERVER_INFO_SEGMENT))

\* new that works is_retry out from the state of the root directory
NewRecomputeRetry(r, retry, dir, stat) ==
    Cfg(r, Display(r, dir, stat), PathJoin(r, LOGS_SEGMENT), PathJoin(r, PYTHON_SEGMENT),
        stat = "ok", PathJoin(r, SERVER_INFO_SEGMENT), PathJoin(r, SERVER_INFO_OLD_SEGMENT))

\* new that unwraps the resolution instead of falling back: no record on failure
NewUnwrap(r, retry, dir, stat) ==
    IF stat # "ok" THEN NoConfig
    ELSE Cfg(r, Display(r, dir, stat), PathJoin(r, LOGS_SEGMENT),
             PathJoin(r, PYTHON_SEGMENT), retry, PathJoin(r, SERVER_INFO_SEGMENT),
             PathJoin(r, SERVER_INFO_OLD_SEGMENT))

\* new that shows the root as given when it cannot be resolved
NewDisplayRaw(r, retry, dir, stat) ==
    Cfg(r, ImStringNew(AbsolutePathStr(r, r, dir, stat)), PathJoin(r, LOGS_SEGMENT),
        PathJoin(r, PYTHON_SEGMENT), retry, PathJoin(r, SERVER_INFO_SEGMENT),
        PathJoin(r, SERVER_INFO_OLD_SEGMENT))

\* new that joins the segments onto the resolved root when it can be resolved
NewAbsoluteBase(r, retry, dir, stat) ==
    LET b == AbsolutePathStr(r, r, dir, stat)
    IN  Cfg(r, Display(r, dir, stat), PathJoin(b, LOGS_SEGMENT), PathJoin(b, PYTHON_SEGMENT),
            retry, PathJoin(b, SERVER_INFO_SEGMENT), PathJoin(b, SERVER_INFO_OLD_SEGMENT))

\* new that leaves the derived paths empty when the root cannot be resolved
NewAbortOnFailure(r, retry, dir, stat) ==
    IF stat # "ok"
    THEN Cfg(r, Display(r, dir, stat), <<>>, <<>>, retry, <<>>, <<>>)
    ELSE Cfg(r, Display(r, dir, stat), PathJoin(r, LOGS_SEGMENT),
             PathJoin(r, PYTHON_SEGMENT), retry, PathJoin(r, SERVER_INFO_SEGMENT),
             PathJoin(r, SERVER_INFO_OLD_SEGMENT))

\* new that puts the logs folder under the current directory, not the root
NewLogsInCwd(r, retry, dir, stat) ==
    Cfg(r, Display(r, dir, stat), PathJoin(dir, LOGS_SEGMENT), PathJoin(r, PYTHON_SEGMENT),
        retry, PathJoin(r, SERVER_INFO_SEGMENT), PathJoin(r, SERVER_INFO_OLD_SEGMENT))

\* new with the backup file joined from the server-info segment (a copied line)
NewCopiedLine(r, retry, dir, stat) ==
    Cfg(r, Display(r, dir, stat), PathJoin(r, LOGS_SEGMENT), PathJoin(r, PYTHON_SEGMENT),
        retry, PathJoin(r, SERVER_INFO_SEGMENT), PathJoin(r, SERVER_INFO_SEGMENT))

\* InstallerConfig::new(root, is_retry), run on a host whose current directory
\* is dir and where a query of the root finds stat
New(r, retry, dir, stat) ==
    LET sub_folder == r
        sub_folder_display ==
            ImStringNew(AbsolutePathStr(sub_folder, FALLBACK_MESSAGE, dir, stat))
        logs_folder == PathJoin(sub_folder, LOGS_SEGMENT)
        python_path == PathJoin(sub_folder, PYTHON_SEGMENT)
        server_info_path == PathJoin(sub_folder, SERVER_INFO_SEGMENT)
        server_info_old == PathJoin(sub_folder, SERVER_INFO_OLD_SEGMENT)
    IN  [sub_folder |-> sub_folder,
         sub_folder_display |-> sub_folder_display,
         logs_folder |-> logs_folder,
         python_path |-> python_path,
         is_retry |-> retry,
         server_info_path |-> server_info_path,
         server_info_old |-> server_info_old]

\* new that also creates the root directory
NewFsOpsCreateDir(stat) == AbsolutePathOps(stat) \o <<[op |-> "create_dir", found |-> stat]>>

\* The filesystem operations of one call of new: those of its call of
\* absolute_path_str; PathBuf::from and join perform none.
NewFsOps(stat) == AbsolutePathOps(stat)

-----------------------------------------------------------------------------
(* Inputs.                                                                 *)

Alphabet == {BS, "/", ":", ".", "a"}

\* C:\Game, ./install, \\a\a, \\?\C:\a, \\?\a\., \\.\a, \\?\UNC\a\a\
ScenarioRoots ==
    { <<"C", ":", BS, "G", "a", "m", "e">>,
      <<".", "/", "i", "n", "s", "t", "a", "l", "l">>,
      <<BS, BS, "a", BS, "a">>,
      <<BS, BS, "?", BS, "C", ":", BS, "a">>,
      <<BS, BS, "?", BS, "a", BS, ".">>,
      <<BS, BS, ".", BS, "a">>,
      <<BS, BS, "?", BS, "U", "N", "C", BS, "a", BS, "a", BS>> }

Roots == ScenarioRoots \cup UNION {[1..k -> Alphabet] : k \in 0..MaxRootLen}

-----------------------------------------------------------------------------
(* The state machine.                                                      *)

Init ==
    /\ root \in Roots
    /\ is_retry \in BOOLEAN
    /\ cwd \in Cwds
    /\ rootStat \in RootStats
    /\ pc = "start"
    /\ cfg = NoConfig
    /\ prev = NoConfig
    /\ fsLog = <<>>

\* the installer calls InstallerConfig::new(&root, is_retry)
Call ==
    /\ pc' = "returned"
    /\ prev' = cfg
    /\ cfg' = New(root, is_retry, cwd, rootStat)
    /\ fsLog' = NewFsOps(rootStat)
    /\ rootStat' = ApplyOps(rootStat, NewFsOps(rootStat))
    /\ UNCHANGED <<root, is_retry, cwd>>

\* another stage or program creates, removes or locks the root directory
HostChange ==
    /\ \E st \in RootStats \ {rootStat} : rootStat' = st
    /\ UNCHANGED <<root, is_retry, cwd, pc, cfg, prev, fsLog>>

Next == Call \/ HostChange

Spec == Init /\ [][Next]_vars

-----------------------------------------------------------------------------
(* Shared vocabulary of the properties.                                    *)

\* a call of new has returned, so cfg and fsLog are those of that call
Returned == pc = "returned"

\* what the latest call's resolution query found
Found == fsLog[1].found

\* the fields of an InstallerConfig other than sub_folder_display
NonDisplay(c) ==
    <<c.sub_folder, c.logs_folder, c.python_path, c.is_retry,
      c.server_info_path, c.server_info_old>>

\* component lists agree element by element
CompsEq(cx, cy) ==
    /\ Len(cx) = Len(cy)
    /\ \A i \in 1..Len(cx) : CompEq(cx[i], cy[i])

\* the component list cp starts with cb, and what follows is cseg
CompsBasePlus(cp, cb, cseg) ==
    /\ Len(cp) = Len(cb) + Len(cseg)
    /\ \A i \in 1..Len(cb) : CompEq(cp[i], cb[i])
    /\ \A i \in 1..Len(cseg) : CompEq(cp[Len(cb) + i], cseg[i])

\* the four derived paths of c lie under base (base's components are a prefix
\* of theirs), each followed by the components of its segment
DerivedUnder(c, base) ==
    LET cb == Components(base) IN
    /\ CompsBasePlus(Components(c.logs_folder), cb,
          Components(<<"I","N","S","T","A","L","L","E","R","_","L","O","G","S">>))
    /\ CompsBasePlus(Components(c.python_path), cb,
          Components(<<"p","y","t","h","o","n","/","p","y","t","h","o","n",".","e","x","e">>))
    /\ CompsBasePlus(Components(c.server_info_path), cb,
          Components(<<"s","e","r","v","e","r","-","i","n","f","o",".","j","s","o","n">>))
    /\ CompsBasePlus(Components(c.server_info_old), cb,
          Components(<<"s","e","r","v","e","r","-","i","n","f","o","-","o","l","d",
                       ".","j","s","o","n">>))

CGame == <<"C", ":", BS, "G", "a", "m", "e">>
DotInstall == <<".", "/", "i", "n", "s", "t", "a", "l", "l">>

-----------------------------------------------------------------------------
(* C1: for every root and retry flag, the record new returns has           *)
(* logs_folder = root.join("INSTALLER_LOGS"), python_path =                *)
(* root.join("python/python.exe"), server_info_path =                      *)
(* root.join("server-info.json") and server_info_old =                     *)
(* root.join("server-info-old.json"): the very same path text, not a path  *)
(* that merely contains it.                                                *)
C1_DerivedAreExactJoins ==
    Returned =>
        /\ cfg.sub_folder = root
        /\ cfg.logs_folder =
             PathJoin(root, <<"I","N","S","T","A","L","L","E","R","_","L","O","G","S">>)
        /\ cfg.python_path =
             PathJoin(root, <<"p","y","t","h","o","n","/","p","y","t","h","o","n",".","e","x","e">>)
        /\ cfg.server_info_path =
             PathJoin(root, <<"s","e","r","v","e","r","-","i","n","f","o",".","j","s","o","n">>)
        /\ cfg.server_info_old =
             PathJoin(root, <<"s","e","r","v","e","r","-","i","n","f","o","-","o","l","d",
                              ".","j","s","o","n">>)

\* C1's case: new has returned for the relative root ./install
C1_Witness == Returned /\ root = DotInstall /\ cfg.logs_folder # root

(* C2: for every root and retry flag, the returned record's is_retry is    *)
(* the flag the caller passed, whatever the state of the root directory.   *)
C2_RetryStoredUnchanged == Returned => cfg.is_retry = is_retry

\* C2's case: a retry run whose root directory does not exist
C2_Witness == Returned /\ is_retry /\ Found = "missing" /\ cfg.is_retry

(* C3: for every root, retry flag and host state new yields a fully        *)
(* populated InstallerConfig, and every call that has returned has         *)
(* returned one, also for the empty root and for a root that does not      *)
(* exist.                                                                  *)
C3_NewIsTotal ==
    /\ DOMAIN New(root, is_retry, cwd, rootStat) = ConfigFields
    /\ Returned =>
         /\ DOMAIN cfg = ConfigFields
         /\ cfg.is_retry \in BOOLEAN
         /\ cfg.sub_folder = root

\* C3's case: new has returned for the empty root, which does not exist
C3_Witness == Returned /\ root = <<>> /\ Found = "missing" /\ DOMAIN cfg = ConfigFields

C5_Original == (Returned /\ prev # NoConfig) => cfg = prev

(* C5, amended: two calls of new with the same root and retry flag return  *)
(* records equal in sub_folder, logs_folder, python_path, is_retry,        *)
(* server_info_path and server_info_old, whatever happened to the host     *)
(* between them; sub_folder_display is resolved against the host at each   *)
(* call and is either the fallback message or an absolute path.            *)
C5_Amended ==
    (Returned /\ prev # NoConfig) =>
        /\ NonDisplay(cfg) = NonDisplay(prev)
        /\ \A c \in {cfg, prev} :
             \/ c.sub_folder_display = FALLBACK_MESSAGE
             \/ IsAbsolute(c.sub_folder_display)

\* C5's case: two calls with the same inputs whose display strings differ
C5_Witness ==
    /\ Returned
    /\ prev # NoConfig
    /\ cfg.sub_folder_display # prev.sub_folder_display
    /\ NonDisplay(cfg) = NonDisplay(prev)

(* C6: when the resolution of the root fails, new still returns:           *)
(* sub_folder_display is "couldn't determine path" and every other field   *)
(* has the value it has when the resolution succeeds.                      *)
C6_FallbackKeepsOtherFields ==
    (Returned /\ Found # "ok") =>
        /\ cfg.sub_folder_display =
             <<"c","o","u","l","d","n","'","t"," ","d","e","t","e","r","m","i","n","e",
               " ","p","a","t","h">>
        /\ \A d \in Cwds : NonDisplay(cfg) = NonDisplay(New(root, is_retry, d, "ok"))

\* C6's case: new has returned for C:\Game, which the process may not stat
C6_Witness ==
    Returned /\ root = CGame /\ Found = "denied" /\ cfg.logs_folder # <<>>

(* C7, as claimed: a call of new performs no filesystem access at all: it  *)
(* reads nothing and changes nothing.                                      *)
C7_Original == Returned => fsLog = <<>>

(* C7, amended: a call of new changes nothing in the filesystem; its one   *)
(* filesystem access is the single resolution query made for               *)
(* sub_folder_display.                                                     *)
C7_Amended ==
    [][Call => /\ rootStat' = rootStat
               /\ Len(fsLog') = 1
               /\ fsLog'[1].op = "query"]_vars

\* C7's case: new has returned for a missing root, which is still missing
C7_Witness == Returned /\ Len(fsLog) = 1 /\ Found = "missing" /\ rootStat = "missing"

(* C8: for root C:\Game and retry flag false the record holds sub_folder   *)
(* C:\Game, logs_folder C:\Game\INSTALLER_LOGS, python_path                *)
(* C:\Game\python\python.exe, server_info_path C:\Game\server-info.json,   *)
(* server_info_old C:\Game\server-info-old.json and is_retry false, each   *)
(* path equal as PathBufs are equal (component by component).              *)
C8_ScenarioCGame ==
    (Returned /\ root = CGame /\ is_retry = FALSE) =>
        /\ PathEq(cfg.sub_folder, <<"C",":",BS,"G","a","m","e">>)
        /\ PathEq(cfg.logs_folder,
                  <<"C",":",BS,"G","a","m","e",BS,
                    "I","N","S","T","A","L","L","E","R","_","L","O","G","S">>)
        /\ PathEq(cfg.python_path,
                  <<"C",":",BS,"G","a","m","e",BS,
                    "p","y","t","h","o","n",BS,"p","y","t","h","o","n",".","e","x","e">>)
        /\ PathEq(cfg.server_info_path,
                  <<"C",":",BS,"G","a","m","e",BS,
                    "s","e","r","v","e","r","-","i","n","f","o",".","j","s","o","n">>)
        /\ PathEq(cfg.server_info_old,
                  <<"C",":",BS,"G","a","m","e",BS,
                    "s","e","r","v","e","r","-","i","n","f","o","-","o","l","d",
                    ".","j","s","o","n">>)
        /\ cfg.is_retry = FALSE

\* C8's case: new has returned for C:\Game with the retry flag false
C8_Witness ==
    Returned /\ root = CGame /\ is_retry = FALSE /\ Len(Components(cfg.python_path)) = 5

\* A root that starts with two separators carries a complete prefix:
\* \\server\share, \\.\device, or a verbatim prefix followed by a '\' (and,
\* for \\?\UNC\, naming a share).
CompletePrefix(r) ==
    LET p == ParsePrefix(r) IN
    \/ ~StartsWith(NormSep(r), <<BS, BS>>)
    \/ p.kind = "UNC"
    \/ p.kind = "DeviceNS" /\ p.a # <<>>
    \/ p.kind \in {"Verbatim", "VerbatimDisk"} /\ HasPhysicalRoot(r, p)
    \/ p.kind = "VerbatimUNC" /\ p.b # <<>> /\ HasPhysicalRoot(r, p)

(* C9, as claimed: for every root, each derived path lies under sub_folder *)
(* -- sub_folder's components are a prefix of its components -- and the    *)
(* remaining components are those of its fixed segment.                    *)
C9_Original == Returned => DerivedUnder(cfg, cfg.sub_folder)

(* C9, amended: for every root that does not start with two separators,    *)
(* and for every root that does and carries a complete prefix, each        *)
(* derived path lies under sub_folder and its remaining components are     *)
(* those of its fixed segment.                                             *)
C9_Amended == (Returned /\ CompletePrefix(root)) => DerivedUnder(cfg, cfg.sub_folder)

\* C9's case: new has returned for the empty root
C9_Witness ==
    Returned /\ root = <<>> /\ CompletePrefix(root) /\ Len(Components(cfg.python_path)) = 2

(* C10: for every root and retry flag the four derived paths are pairwise  *)
(* different paths and each differs from sub_folder; server_info_path is   *)
(* never server_info_old.                                                  *)
C10_DerivedDistinct ==
    Returned =>
        LET ps == <<cfg.sub_folder, cfg.logs_folder, cfg.python_path,
                    cfg.server_info_path, cfg.server_info_old>>
            cs == [i \in 1..5 |-> Components(ps[i])]
        IN  \A i, j \in 1..5 : i < j => ~CompsEq(cs[i], cs[j])

\* C10's case: new has returned for a root that is a bare UNC server name
C10_Witness ==
    /\ Returned
    /\ root = <<BS, BS, "a">>
    /\ ~CompsEq(Components(cfg.server_info_path), Components(cfg.server_info_old))

====
